---- MODULE Spec2Model ----
(***************************************************************************)
(* graph_tool.spectral: adjacency, laplacian and incidence matrices of a   *)
(* graph, built dense or sparse (src/graph_tool/spectral/__init__.py).     *)
(*                                                                         *)
(* The graph is the input of a call: Init draws it, and one action per     *)
(* public function applies that function to it and records what the call   *)
(* returned.  Every function is computed as the code computes it: an index *)
(* map, a zero matrix, one pass over g.vertices() and the per-vertex edge  *)
(* iterators doing m[i, j] += x, then the storage conversion.              *)
(***************************************************************************)
EXTENDS Integers, Sequences, FiniteSets, TLC

\* Number of vertices of the underlying (unfiltered) graph.
MaxV == 3
\* Largest number of edges of the underlying graph.
MaxE == 2
\* Values an edge weight property map may hold.
Weights == {-1, 1, 2}
\* Values of the deg argument a caller may pass; "bogus" is an unrecognised one.
DegArgs == {"total", "in", "out", "bogus"}

VARIABLES directed, vfilter, edges, undirIn, call, ret

vars == <<directed, vfilter, edges, undirIn, call, ret>>

----------------------------------------------------------------------------
(* Matrix entries.  An entry is num / sqrt(rad): rad = 1 for the integers  *)
(* of adjacency, incidence and the plain laplacian, rad = d * d2 for the   *)
(* normalized laplacian.  rad = 0 holds the non-finite results of a        *)
(* division by sqrt(0): num = -1, 0, 1 for -inf, nan, +inf.                *)

Num(x) == [num |-> x, rad |-> 1]

Zero == Num(0)

NaN == [num |-> 0, rad |-> 0]

Inf(sign) == [num |-> sign, rad |-> 0]

\* A sum of two finite entries of different radicands; no build produces one.
Unrepresented == [num |-> 0, rad |-> -1]

\* Python's  x != 0  on an entry, negated: nan and the infinities are not 0.
IsZero(a) == a.rad > 0 /\ a.num = 0

Sign(x) == IF x > 0 THEN 1 ELSE IF x < 0 THEN -1 ELSE 0

\* a + b in floating point arithmetic.
Add(a, b) ==
    IF a = Unrepresented \/ b = Unrepresented THEN Unrepresented
    ELSE IF a = NaN \/ b = NaN THEN NaN
    ELSE IF a.rad = 0 /\ b.rad = 0 THEN (IF a.num = b.num THEN a ELSE NaN)
    ELSE IF a.rad = 0 THEN a
    ELSE IF b.rad = 0 THEN b
    ELSE IF IsZero(a) THEN b
    ELSE IF IsZero(b) THEN a
    ELSE IF a.rad = b.rad
         THEN (IF a.num + b.num = 0 THEN Zero
               ELSE [num |-> a.num + b.num, rad |-> a.rad])
    ELSE Unrepresented

\* x / sqrt(r) with numpy's sqrt and float64 division: sqrt of a negative
\* number is nan, a division by 0.0 gives an infinity or nan.
DivSqrt(x, r) ==
    IF r < 0 THEN NaN
    ELSE IF r = 0 THEN Inf(Sign(x))
    ELSE IF x = 0 THEN Zero
    ELSE [num |-> x, rad |-> r]

\* Two entries denote the same number (nan equals nothing, not even nan).
ValEq(a, b) ==
    /\ a # NaN /\ b # NaN
    /\ a # Unrepresented /\ b # Unrepresented
    /\ IF a.rad = 0 \/ b.rad = 0 THEN a = b
       ELSE /\ Sign(a.num) = Sign(b.num)
            /\ a.num * a.num * b.rad = b.num * b.num * a.rad

----------------------------------------------------------------------------
(* The matrices of numpy and scipy.sparse.  A dense matrix holds a value   *)
(* in every cell.  A lil_matrix holds, per row, the list of its stored     *)
(* (column, value) pairs sorted by column, and stores no zero.  A          *)
(* csr_matrix holds the stored values row after row: indptr[i+1] to        *)
(* indptr[i+2] - 1 (1-based here) are the positions of row i in indices    *)
(* and data.  err records an IndexError raised by an assignment outside    *)
(* the shape.                                                              *)

\* matrix(zeros((n, k)))
zeros(n, k) ==
    [kind |-> "dense", shape |-> <<n, k>>, err |-> FALSE,
     a |-> [c \in (0..(n - 1)) \X (0..(k - 1)) |-> Zero]]

\* scipy.sparse.lil_matrix((n, k)); a dimension of 0 is accepted.
lil_matrix(n, k) ==
    [kind |-> "lil", shape |-> <<n, k>>, err |-> FALSE,
     rows |-> [i \in 0..(n - 1) |-> <<>>]]

InShape(m, i, j) ==
    /\ i \in 0..(m.shape[1] - 1)
    /\ j \in 0..(m.shape[2] - 1)

\* Positions of column j in a row list (at most one).
RowPos(row, j) == {p \in 1..Len(row) : row[p].col = j}

\* bisect_left(row, j): the number of stored columns smaller than j.
BisectLeft(row, j) == Cardinality({p \in 1..Len(row) : row[p].col < j})

\* lil_matrix._insertat2: a nonzero x is stored at its sorted position or
\* replaces the stored value, x = 0 deletes the stored value.
InsertAt(row, j, x) ==
    LET pos == BisectLeft(row, j)
        found == pos < Len(row) /\ row[pos + 1].col = j
        before == SubSeq(row, 1, pos)
    IN IF ~IsZero(x)
       THEN IF found
            THEN [row EXCEPT ![pos + 1] = [col |-> j, val |-> x]]
            ELSE before \o <<[col |-> j, val |-> x]>> \o SubSeq(row, pos + 1, Len(row))
       ELSE IF found
            THEN before \o SubSeq(row, pos + 2, Len(row))
            ELSE row

\* m[i, j] on a dense or lil matrix (read only inside the shape).
GetItem(m, i, j) ==
    IF m.kind = "dense" THEN m.a[<<i, j>>]
    ELSE LET ps == RowPos(m.rows[i], j)
         IN IF ps = {} THEN Zero ELSE m.rows[i][CHOOSE p \in ps : TRUE].val

\* m[i, j] = x
SetItem(m, i, j, x) ==
    IF m.err THEN m
    ELSE IF ~InShape(m, i, j) THEN [m EXCEPT !.err = TRUE]
    ELSE IF m.kind = "dense" THEN [m EXCEPT !.a[<<i, j>>] = x]
    ELSE [m EXCEPT !.rows[i] = InsertAt(m.rows[i], j, x)]

\* m[i, j] += x
IAdd(m, i, j, x) ==
    IF m.err THEN m
    ELSE IF ~InShape(m, i, j) THEN [m EXCEPT !.err = TRUE]
    ELSE SetItem(m, i, j, Add(GetItem(m, i, j), x))

RECURSIVE Flatten(_, _, _)
\* The row lists of rows i .. n-1, one after the other.
Flatten(rows, i, n) ==
    IF i >= n THEN <<>> ELSE rows[i] \o Flatten(rows, i + 1, n)

RECURSIVE RowEnds(_, _, _, _)
\* indptr after the leading 0: the running count of stored values.
RowEnds(rows, i, n, acc) ==
    IF i >= n THEN <<>>
    ELSE <<acc + Len(rows[i])>> \o RowEnds(rows, i + 1, n, acc + Len(rows[i]))

\* lil_matrix.tocsr()
tocsr(m) ==
    LET n == m.shape[1]
        flat == Flatten(m.rows, 0, n)
    IN [kind |-> "csr", shape |-> m.shape, err |-> m.err,
        indptr |-> <<0>> \o RowEnds(m.rows, 0, n, 0),
        indices |-> [p \in 1..Len(flat) |-> flat[p].col],
        data |-> [p \in 1..Len(flat) |-> flat[p].val]]

\* The value a returned matrix holds at (i, j): dense[i][j] or csr[i, j].
Get(m, i, j) ==
    IF m.kind = "dense" THEN m.a[<<i, j>>]
    ELSE LET ps == {p \in (m.indptr[i + 1] + 1)..m.indptr[i + 2] : m.indices[p] = j}
         IN IF ps = {} THEN Zero ELSE m.data[CHOOSE p \in ps : TRUE]

----------------------------------------------------------------------------
(* The graph collaborator (graph_tool.Graph), as section 3 and 6 of the    *)
(* specification describe it: vertices 0 .. MaxV-1, an optional vertex     *)
(* filter, and a list of edges that may hold parallel edges and self-loops.*)
(* An edge is active when both its endpoints are.                          *)

Vertices == 0..(MaxV - 1)

RECURSIVE SortedSeq(_)
\* The elements of a set of integers in increasing order.
SortedSeq(S) ==
    IF S = {} THEN <<>>
    ELSE LET x == CHOOSE y \in S : \A z \in S : y <= z
         IN <<x>> \o SortedSeq(S \ {x})

\* The vertices the filter leaves in the graph.
Active == IF vfilter.present THEN vfilter.active ELSE Vertices

EdgeActive(k) == edges[k].s \in Active /\ edges[k].t \in Active

\* g.vertices(): the active vertices in their natural order.
vertices == SortedSeq(Active)

\* g.num_vertices()
num_vertices == Cardinality(Active)

\* g.vertex_index: the intrinsic ordinal of a vertex.
vertex_index == [v \in Vertices |-> v]

\* g.edges(): the active edges, as positions in the edge list.
g_edges == SortedSeq({k \in 1..Len(edges) : EdgeActive(k)})

\* g.num_edges()
num_edges == Len(g_edges)

\* Edge k as an iterator of vertex v hands it out: source() is v.
Leaving(k, v) ==
    [id |-> k, source |-> v,
     target |-> IF edges[k].s = v THEN edges[k].t ELSE edges[k].s]

\* Edge k as an in-edge iterator of vertex v hands it out: target() is v.
Entering(k, v) ==
    [id |-> k, target |-> v,
     source |-> IF edges[k].t = v THEN edges[k].s ELSE edges[k].t]

IdsFrom(v) == SortedSeq({k \in 1..Len(edges) : EdgeActive(k) /\ edges[k].s = v})

IdsInto(v) == SortedSeq({k \in 1..Len(edges) : EdgeActive(k) /\ edges[k].t = v})

\* v.out_edges(): the edges leaving v; in an undirected graph every edge
\* incident to v, a self-loop listed once per end.
out_edges(v) ==
    LET ids == IF directed THEN IdsFrom(v) ELSE IdsFrom(v) \o IdsInto(v)
    IN [p \in 1..Len(ids) |-> Leaving(ids[p], v)]

\* v.in_edges(): the edges entering v.  For an undirected graph the
\* specification leaves open whether this lists nothing or the incident
\* edges; undirIn holds the collaborator's choice.
in_edges(v) ==
    LET ids == IF directed THEN IdsInto(v)
               ELSE IF undirIn THEN IdsInto(v) \o IdsFrom(v)
               ELSE <<>>
    IN [p \in 1..Len(ids) |-> Entering(ids[p], v)]

\* v.all_edges(): in a directed graph the out-edges and the in-edges (a
\* self-loop is both), in an undirected graph the incident edges.
all_edges(v) ==
    IF directed THEN out_edges(v) \o in_edges(v) ELSE out_edges(v)

out_degree(v) == Len(out_edges(v))

in_degree(v) == Len(in_edges(v))

\* The weight argument: None, or a property map from edges to numbers.
None == [isNone |-> TRUE, map |-> <<>>]

WeightArgs ==
    {None} \cup {[isNone |-> FALSE, map |-> w] : w \in [1..Len(edges) -> Weights]}

----------------------------------------------------------------------------
(* src/graph_tool/spectral/__init__.py                                     *)

\* index without the branch of the vertex filter.
indexUnfiltered == vertex_index

\* The index map each of the three functions builds first.
index ==
    IF vfilter.present
    THEN [v \in Active |-> (CHOOSE i \in 1..Len(vertices) : vertices[i] = v) - 1]
    ELSE vertex_index

\* g.new_edge_property filled by enumerate(g.edges()).
eindex ==
    [k \in {g_edges[i] : i \in 1..Len(g_edges)} |->
        (CHOOSE i \in 1..Len(g_edges) : g_edges[i] = k) - 1]

\* What a call hands back: the matrix, or the exception it raised.
Returned(m) ==
    IF m.err THEN [status |-> "error", error |-> "IndexError", m |-> zeros(0, 0)]
    ELSE [status |-> "matrix", error |-> "", m |-> m]

Raised(e) == [status |-> "error", error |-> e, m |-> zeros(0, 0)]

NotCalled == [status |-> "none", error |-> "", m |-> zeros(0, 0)]

\* 1 if weight is None else weight[e]
EdgeWeight(e, weight) == IF weight.isNone THEN 1 ELSE weight.map[e.id]

RECURSIVE AdjacencyEdgesAssign(_, _, _, _)
\* AdjacencyEdges with = in the place of +=.
AdjacencyEdgesAssign(m, v, es, weight) ==
    IF es = <<>> THEN m
    ELSE AdjacencyEdgesAssign(
             SetItem(m, index[v], index[Head(es).target], Num(EdgeWeight(Head(es), weight))),
             v, Tail(es), weight)

RECURSIVE AdjacencyEdgesRawTarget(_, _, _, _)
\* AdjacencyEdges with the column taken from g.vertex_index.
AdjacencyEdgesRawTarget(m, v, es, weight) ==
    IF es = <<>> THEN m
    ELSE AdjacencyEdgesRawTarget(
             IAdd(m, index[v], vertex_index[Head(es).target],
                  Num(EdgeWeight(Head(es), weight))),
             v, Tail(es), weight)

RECURSIVE AdjacencyEdges(_, _, _, _)
\* for e in v.out_edges(): m[index[v], index[e.target()]] += weight
AdjacencyEdges(m, v, es, weight) ==
    IF es = <<>> THEN m
    ELSE AdjacencyEdges(
             IAdd(m, index[v], index[Head(es).target], Num(EdgeWeight(Head(es), weight))),
             v, Tail(es), weight)

RECURSIVE AdjacencyVertices(_, _, _)
\* for v in g.vertices(): ...
AdjacencyVertices(m, vs, weight) ==
    IF vs = <<>> THEN m
    ELSE AdjacencyVertices(AdjacencyEdges(m, Head(vs), out_edges(Head(vs)), weight),
                           Tail(vs), weight)

adjacency(sparse, weight) ==
    LET N == num_vertices
        m0 == IF sparse THEN lil_matrix(N, N) ELSE zeros(N, N)
        m1 == AdjacencyVertices(m0, vertices, weight)
    IN Returned(IF sparse THEN tocsr(m1) ELSE m1)

RECURSIVE SumWeights(_, _)
\* sum(weight[e] for e in es)
SumWeights(es, weight) ==
    IF es = <<>> THEN 0 ELSE weight.map[Head(es).id] + SumWeights(Tail(es), weight)

\* _get_deg with the branches of "in" and "out" exchanged.
_get_deg_swapped(v, deg, weight) ==
    IF deg = "total"
    THEN IF weight.isNone THEN in_degree(v) + out_degree(v)
         ELSE SumWeights(all_edges(v), weight)
    ELSE IF deg = "in"
    THEN IF weight.isNone THEN out_degree(v) ELSE SumWeights(out_edges(v), weight)
    ELSE IF weight.isNone THEN in_degree(v) ELSE SumWeights(in_edges(v), weight)

\* Any deg other than "total" and "in" takes the last branch.
_get_deg(v, deg, weight) ==
    IF deg = "total"
    THEN IF weight.isNone THEN in_degree(v) + out_degree(v)
         ELSE SumWeights(all_edges(v), weight)
    ELSE IF deg = "in"
    THEN IF weight.isNone THEN in_degree(v) ELSE SumWeights(in_edges(v), weight)
    ELSE IF weight.isNone THEN out_degree(v) ELSE SumWeights(out_edges(v), weight)

\* The values the decorator of laplacian admits for deg.
DegValues == {"total", "in", "out"}

\* _limit_args: the call is refused unless the argument is an admitted value.
_limit_args(deg) == deg \in DegValues

RECURSIVE LaplacianEdges(_, _, _, _, _, _, _)
\* for e in v.out_edges(): m[index[v], index[e.target()]] += val
LaplacianEdges(m, v, d, es, deg, normalized, weight) ==
    IF es = <<>> THEN m
    ELSE LET e == Head(es)
             val == IF ~normalized THEN Num(-EdgeWeight(e, weight))
                    ELSE DivSqrt(-EdgeWeight(e, weight),
                                 d * _get_deg(e.target, deg, weight))
         IN LaplacianEdges(IAdd(m, index[v], index[e.target], val),
                           v, d, Tail(es), deg, normalized, weight)

\* The diagonal of v's row, written after its out-edges.
LaplacianDiagonal(m, v, d, normalized) ==
    IF ~normalized THEN SetItem(m, index[v], index[v], Num(d))
    ELSE IF d > 0 THEN SetItem(m, index[v], index[v], Num(IF d # 0 THEN 1 ELSE 0))
    ELSE m

RECURSIVE LaplacianVertices(_, _, _, _, _)
\* for v in g.vertices(): ...
LaplacianVertices(m, vs, deg, normalized, weight) ==
    IF vs = <<>> THEN m
    ELSE LET v == Head(vs)
             d == _get_deg(v, deg, weight)
             m1 == LaplacianEdges(m, v, d, out_edges(v), deg, normalized, weight)
         IN LaplacianVertices(LaplacianDiagonal(m1, v, d, normalized),
                              Tail(vs), deg, normalized, weight)

\* laplacian without its decorator.
laplacianUnchecked(deg, normalized, sparse, weight) ==
    LET N == num_vertices
        m0 == IF sparse THEN lil_matrix(N, N) ELSE zeros(N, N)
        m1 == LaplacianVertices(m0, vertices, deg, normalized, weight)
    IN Returned(IF sparse THEN tocsr(m1) ELSE m1)

laplacian(deg, normalized, sparse, weight) ==
    IF ~_limit_args(deg) THEN Raised("InvalidArgument")
    ELSE LET N == num_vertices
             m0 == IF sparse THEN lil_matrix(N, N) ELSE zeros(N, N)
             m1 == LaplacianVertices(m0, vertices, deg, normalized, weight)
         IN Returned(IF sparse THEN tocsr(m1) ELSE m1)

RECURSIVE IncidenceEdges(_, _, _, _)
\* for e in es: m[index[v], eindex[e]] += x
IncidenceEdges(m, v, es, x) ==
    IF es = <<>> THEN m
    ELSE IncidenceEdges(IAdd(m, index[v], eindex[Head(es).id], Num(x)), v, Tail(es), x)

\* IncidenceVertex with the signs of a directed graph exchanged.
IncidenceVertexSwapped(m, v) ==
    IF directed
    THEN IncidenceEdges(IncidenceEdges(m, v, out_edges(v), 1), v, in_edges(v), -1)
    ELSE IncidenceEdges(m, v, out_edges(v), 1)

\* IncidenceVertex without the test of g.is_directed().
IncidenceVertexSigned(m, v) ==
    IncidenceEdges(IncidenceEdges(m, v, out_edges(v), -1), v, in_edges(v), 1)

\* The body of the loop over the vertices.
IncidenceVertex(m, v) ==
    IF directed
    THEN IncidenceEdges(IncidenceEdges(m, v, out_edges(v), -1), v, in_edges(v), 1)
    ELSE IncidenceEdges(m, v, out_edges(v), 1)

RECURSIVE IncidenceVertices(_, _)
\* for v in g.vertices(): ...
IncidenceVertices(m, vs) ==
    IF vs = <<>> THEN m
    ELSE IncidenceVertices(IncidenceVertex(m, Head(vs)), Tail(vs))

\* incidence with the sparse matrix allocated square, as adjacency does.
incidenceSquare(sparse) ==
    LET N == num_vertices
        E == num_edges
        m0 == IF sparse THEN lil_matrix(N, N) ELSE zeros(N, E)
        m1 == IncidenceVertices(m0, vertices)
    IN Returned(IF sparse THEN tocsr(m1) ELSE m1)

incidence(sparse) ==
    LET N == num_vertices
        E == num_edges
        m0 == IF sparse THEN lil_matrix(N, E) ELSE zeros(N, E)
        m1 == IncidenceVertices(m0, vertices)
    IN Returned(IF sparse THEN tocsr(m1) ELSE m1)

----------------------------------------------------------------------------
(* The state machine: a graph, and one call of one of the functions.       *)

NoCall ==
    [fn |-> "none", deg |-> "total", normalized |-> TRUE, sparse |-> TRUE,
     weight |-> None]

\* g.edges() walks the vertices and the out-edges of each: the edge list is
\* ordered by source.
EdgeLists ==
    {es \in UNION {[1..n -> [s : Vertices, t : Vertices]] : n \in 0..MaxE} :
        \A k \in 1..(Len(es) - 1) : es[k].s <= es[k + 1].s}

Init ==
    /\ \/ directed = TRUE /\ undirIn = FALSE
       \/ directed = FALSE /\ undirIn \in BOOLEAN
    /\ vfilter \in {[present |-> FALSE, active |-> Vertices]}
                   \cup {[present |-> TRUE, active |-> A] : A \in SUBSET Vertices}
    /\ edges \in EdgeLists
    /\ call = NoCall
    /\ ret = NotCalled

Adjacency ==
    /\ call.fn = "none"
    /\ \E sparse \in BOOLEAN, weight \in WeightArgs :
         /\ call' = [NoCall EXCEPT !.fn = "adjacency", !.sparse = sparse,
                                   !.weight = weight]
         /\ ret' = adjacency(sparse, weight)
    /\ UNCHANGED <<directed, vfilter, edges, undirIn>>

Laplacian ==
    /\ call.fn = "none"
    /\ \E deg \in DegArgs, normalized \in BOOLEAN, sparse \in BOOLEAN,
          weight \in WeightArgs :
         /\ call' = [fn |-> "laplacian", deg |-> deg, normalized |-> normalized,
                     sparse |-> sparse, weight |-> weight]
         /\ ret' = laplacian(deg, normalized, sparse, weight)
    /\ UNCHANGED <<directed, vfilter, edges, undirIn>>

Incidence ==
    /\ call.fn = "none"
    /\ \E sparse \in BOOLEAN :
         /\ call' = [NoCall EXCEPT !.fn = "incidence", !.sparse = sparse]
         /\ ret' = incidence(sparse)
    /\ UNCHANGED <<directed, vfilter, edges, undirIn>>

Next == Adjacency \/ Laplacian \/ Incidence

Spec == Init /\ [][Next]_vars

----------------------------------------------------------------------------
(* What the claims speak of, stated without the code's loops.              *)

\* The position of an active vertex among the active vertices.
Rank(v) == Cardinality({u \in Active : u < v})

\* The position of an active edge among the active edges.
Column(k) == Cardinality({j \in 1..Len(edges) : EdgeActive(j) /\ j < k})

ActiveEdges == {k \in 1..Len(edges) : EdgeActive(k)}

RECURSIVE WeightTo(_, _, _)
\* The weight (or the number, when weight is None) of the edges of an
\* edge sequence whose target is u.
WeightTo(es, u, weight) ==
    IF es = <<>> THEN 0
    ELSE (IF Head(es).target = u
          THEN (IF weight.isNone THEN 1 ELSE weight.map[Head(es).id])
          ELSE 0) + WeightTo(Tail(es), u, weight)

HasSelfLoop(v) == \E k \in ActiveEdges : edges[k].s = v /\ edges[k].t = v

Incident(v) == {k \in ActiveEdges : edges[k].s = v \/ edges[k].t = v}

\* v is joined to another vertex.
HasNeighbor(v) == \E k \in Incident(v) : edges[k].s # edges[k].t

RECURSIVE RowSumFrom(_, _, _)
\* The sum of the (integer) entries of row i from column j on.
RowSumFrom(m, i, j) ==
    IF j >= m.shape[2] THEN 0 ELSE Get(m, i, j).num + RowSumFrom(m, i, j + 1)

RowSum(m, i) == RowSumFrom(m, i, 0)

RowsAreIntegers(m) ==
    \A i \in 0..(m.shape[1] - 1), j \in 0..(m.shape[2] - 1) : Get(m, i, j).rad = 1

\* The call of the state, made again with the other value of sparse.
OtherStorage ==
    IF call.fn = "adjacency" THEN adjacency(~call.sparse, call.weight)
    ELSE IF call.fn = "laplacian"
    THEN laplacian(call.deg, call.normalized, ~call.sparse, call.weight)
    ELSE incidence(~call.sparse)

\* The call of the state, made again with another value of deg.
WithDeg(d) == laplacian(d, call.normalized, call.sparse, call.weight)

SameEntries(m1, m2) ==
    /\ m1.shape = m2.shape
    /\ \A i \in 0..(m1.shape[1] - 1), j \in 0..(m1.shape[2] - 1) :
          Get(m1, i, j) = Get(m2, i, j)

SameNumbers(m1, m2) ==
    /\ m1.shape = m2.shape
    /\ \A i \in 0..(m1.shape[1] - 1), j \in 0..(m1.shape[2] - 1) :
          ValEq(Get(m1, i, j), Get(m2, i, j))

----------------------------------------------------------------------------
\* C1: entry (index(v), index(u)) of adjacency(g, weight) is the sum of the
\* weights of the out-edges of v whose target is u, or their number when
\* weight is None; parallel edges add up and a self-loop lands on the diagonal.
C1_AdjacencyEntries ==
    call.fn = "adjacency" =>
        /\ ret.status = "matrix"
        /\ \A v \in Active, u \in Active :
              Get(ret.m, Rank(v), Rank(u)) = Num(WeightTo(out_edges(v), u, call.weight))

\* Two weighted parallel edges between two vertices the filter has renumbered.
C1_Witness ==
    /\ call.fn = "adjacency" /\ ~call.weight.isNone /\ directed
    /\ vfilter.present /\ 0 \notin Active
    /\ \E v \in Active, u \in Active :
          /\ v # u
          /\ Cardinality({k \in ActiveEdges : edges[k].s = v /\ edges[k].t = u}) = 2
          /\ Get(ret.m, Rank(v), Rank(u)) = Num(3)

\* C2: the adjacency matrix of an undirected graph is symmetric, whatever its
\* parallel edges, self-loops, weights and vertex filter.
C2_AdjacencySymmetric ==
    (call.fn = "adjacency" /\ ~directed) =>
        /\ ret.status = "matrix"
        /\ \A i \in 0..(num_vertices - 1), j \in 0..(num_vertices - 1) :
              Get(ret.m, i, j) = Get(ret.m, j, i)

\* A weighted undirected edge between two different renumbered vertices.
C2_Witness ==
    /\ call.fn = "adjacency" /\ ~directed /\ ~call.weight.isNone
    /\ vfilter.present /\ 0 \notin Active
    /\ \E k \in ActiveEdges :
          /\ edges[k].s # edges[k].t
          /\ Get(ret.m, Rank(edges[k].s), Rank(edges[k].t)) = Num(2)
          /\ Get(ret.m, Rank(edges[k].t), Rank(edges[k].s)) = Num(2)

\* C3 (as amended): with deg = "out", each row of laplacian(g,
\* normalized=False) that belongs to a vertex with at least one neighbor and
\* no self-loop sums to 0.
C3_RowSumOut ==
    (call.fn = "laplacian" /\ ~call.normalized /\ call.deg = "out") =>
        /\ ret.status = "matrix"
        /\ RowsAreIntegers(ret.m)
        /\ \A v \in Active :
              (HasNeighbor(v) /\ ~HasSelfLoop(v)) => RowSum(ret.m, Rank(v)) = 0

\* A vertex with two out-edges and a diagonal of 2 (or of the weights' sum).
C3_Witness ==
    /\ call.fn = "laplacian" /\ ~call.normalized /\ call.deg = "out" /\ directed
    /\ \E v \in Active :
          /\ ~HasSelfLoop(v)
          /\ Len(out_edges(v)) = 2
          /\ Get(ret.m, Rank(v), Rank(v)).num > 0
          /\ RowSum(ret.m, Rank(v)) = 0

\* C3 (as stated): for every deg in {total, in, out}, each row of
\* laplacian(g, normalized=False) that belongs to a vertex with at least one
\* neighbor sums to 0.
C3_Original ==
    (call.fn = "laplacian" /\ ~call.normalized /\ call.deg \in DegValues) =>
        /\ ret.status = "matrix"
        /\ \A v \in Active : HasNeighbor(v) => RowSum(ret.m, Rank(v)) = 0

\* C4 (as stated): the diagonal entry of laplacian(g, normalized=True) for v
\* is 1 when the degree of v under the deg convention is nonzero, and 0 when v
\* is isolated.
C4_Original ==
    (call.fn = "laplacian" /\ call.normalized /\ call.deg \in DegValues) =>
        /\ ret.status = "matrix"
        /\ \A v \in Active :
              /\ _get_deg(v, call.deg, call.weight) # 0
                    => ValEq(Get(ret.m, Rank(v), Rank(v)), Num(1))
              /\ Incident(v) = {} => ValEq(Get(ret.m, Rank(v), Rank(v)), Zero)

\* C5: in the incidence matrix of a directed graph the column of an edge holds
\* +1 in the row of its target, -1 in the row of its source and 0 elsewhere;
\* the column of a self-loop is all zeros.
C5_IncidenceDirected ==
    (call.fn = "incidence" /\ directed) =>
        /\ ret.status = "matrix"
        /\ \A k \in ActiveEdges, v \in Active :
              Get(ret.m, Rank(v), Column(k)) =
                 IF edges[k].s = edges[k].t THEN Zero
                 ELSE IF v = edges[k].t THEN Num(1)
                 ELSE IF v = edges[k].s THEN Num(-1)
                 ELSE Zero

\* A directed graph with a self-loop and an edge between two other vertices.
C5_Witness ==
    /\ call.fn = "incidence" /\ directed /\ ret.status = "matrix"
    /\ \E k \in ActiveEdges : edges[k].s = edges[k].t
    /\ \E k \in ActiveEdges :
          /\ edges[k].s # edges[k].t
          /\ Get(ret.m, Rank(edges[k].t), Column(k)) = Num(1)
          /\ Get(ret.m, Rank(edges[k].s), Column(k)) = Num(-1)

\* C6: in the incidence matrix of an undirected graph the column of an edge
\* holds 1 in the rows of its two endpoints and 0 elsewhere, and the column of
\* a self-loop holds 2 in the row of its vertex and 0 elsewhere.
C6_IncidenceUndirected ==
    (call.fn = "incidence" /\ ~directed) =>
        /\ ret.status = "matrix"
        /\ \A k \in ActiveEdges, v \in Active :
              Get(ret.m, Rank(v), Column(k)) =
                 IF edges[k].s = edges[k].t
                 THEN (IF v = edges[k].s THEN Num(2) ELSE Zero)
                 ELSE IF v = edges[k].t \/ v = edges[k].s THEN Num(1)
                 ELSE Zero

\* An undirected graph with a self-loop and an edge between two other vertices.
C6_Witness ==
    /\ call.fn = "incidence" /\ ~directed /\ ret.status = "matrix"
    /\ \E k \in ActiveEdges :
          /\ edges[k].s = edges[k].t
          /\ Get(ret.m, Rank(edges[k].s), Column(k)) = Num(2)
    /\ \E k \in ActiveEdges :
          /\ edges[k].s # edges[k].t
          /\ Get(ret.m, Rank(edges[k].t), Column(k)) = Num(1)
          /\ Get(ret.m, Rank(edges[k].s), Column(k)) = Num(1)

\* C7: for adjacency, laplacian and incidence and every input, the result
\* built with sparse=True and the one built with sparse=False have the same
\* shape and hold the same value at every (i, j).
C7_SparseDenseAgree ==
    call.fn # "none" =>
        LET other == OtherStorage
        IN /\ other.status = ret.status
           /\ other.error = ret.error
           /\ ret.status = "matrix" =>
                 /\ ret.m.kind = (IF call.sparse THEN "csr" ELSE "dense")
                 /\ other.m.kind = (IF call.sparse THEN "dense" ELSE "csr")
                 /\ SameEntries(ret.m, other.m)

\* A sparse normalized laplacian that stores three values and not the rest.
C7_Witness ==
    /\ call.fn = "laplacian" /\ call.sparse /\ call.normalized
    /\ ret.status = "matrix" /\ ret.m.kind = "csr"
    /\ Len(ret.m.data) = 3
    /\ num_vertices = 3
    /\ OtherStorage.m.kind = "dense"

\* C8: laplacian with a deg outside {"total", "in", "out"} fails with an
\* invalid-argument error: no matrix is returned, and the value is not
\* treated as one of the recognized modes.
C8_InvalidDeg ==
    (call.fn = "laplacian" /\ call.deg \notin {"total", "in", "out"}) =>
        ret = Raised("InvalidArgument")

\* A refused call on a graph that has an edge a matrix would show.
C8_Witness ==
    /\ call.fn = "laplacian" /\ call.deg = "bogus"
    /\ ActiveEdges # {}
    /\ ret.status = "error"

\* C9 (as stated): in an undirected graph the degree of every vertex is the
\* same under deg = "in", "out" and "total", so laplacian returns the same
\* matrix for the three; in a directed graph the total degree is the
\* in-degree plus the out-degree.
C9_Original ==
    (call.fn = "laplacian" /\ call.deg \in DegValues) =>
        /\ ret.status = "matrix"
        /\ ~directed =>
              \A d \in DegValues :
                  /\ \A v \in Active :
                        _get_deg(v, d, call.weight) = _get_deg(v, call.deg, call.weight)
                  /\ SameNumbers(WithDeg(d).m, ret.m)
        /\ directed =>
              \A v \in Active :
                  _get_deg(v, "total", call.weight) =
                      _get_deg(v, "in", call.weight) + _get_deg(v, "out", call.weight)

\* C10: the vertex index is a bijection from the active vertices onto 0..N-1,
\* the matrix has N rows (and N columns, or one column per active edge for
\* incidence), and no build writes outside the matrix.
C10_IndexInRange ==
    LET N == Cardinality(Active)
        E == Cardinality(ActiveEdges)
    IN /\ {index[v] : v \in Active} = 0..(N - 1)
       /\ \A v \in Active, u \in Active : index[v] = index[u] => v = u
       /\ {eindex[k] : k \in ActiveEdges} = 0..(E - 1)
       /\ \A k \in ActiveEdges, j \in ActiveEdges : eindex[k] = eindex[j] => k = j
       /\ (call.fn # "none" /\ ret.error # "InvalidArgument") =>
             /\ ret.status = "matrix"
             /\ ret.m.shape = <<N, IF call.fn = "incidence" THEN E ELSE N>>

\* A build on a filtered graph whose first vertex is hidden and whose two
\* remaining vertices are joined by an edge.
C10_Witness ==
    /\ call.fn = "incidence" /\ ret.status = "matrix"
    /\ vfilter.present /\ Active = {1, 2}
    /\ Cardinality(ActiveEdges) = 1 /\ Len(edges) = 2
    /\ \E k \in ActiveEdges : edges[k].s = 1 /\ edges[k].t = 2 /\ k = 2
    /\ ret.m.shape = <<2, 1>>

====
